---- MODULE Spec2Model ----
(***************************************************************************)
(* Model of markowitz.py: the closed-form Markowitz solver markowitz_opt   *)
(* and the module-level script that calls it once for the slider's target  *)
(* and then once per sample of the efficient-frontier sweep.               *)
(*                                                                         *)
(* Numbers.  A float64 is modelled by the real number it stands for, kept  *)
(* as a reduced fraction [n, d] with d > 0; the one extra value NonFinite  *)
(* ([n |-> 0, d |-> 0]) stands for IEEE inf/nan, which numpy produces      *)
(* (with a RuntimeWarning, not an exception) on a division by zero or a    *)
(* square root of a negative number, and which every later operation       *)
(* propagates.  Rounding error is not modelled.                            *)
(***************************************************************************)
EXTENDS Integers, Sequences, FiniteSets, TLC

VARIABLES
    pc,                \* where the module-level script stands
    mu,                \* line 25
    cov_matrix,        \* lines 26-30
    target_return,     \* line 22
    weights_opt,       \* line 69
    port_return,       \* line 69
    port_risk,         \* line 69
    frontier_returns,  \* line 86
    frontier_risks,    \* lines 87-91
    idx,               \* line 88: the loop's position in frontier_returns (from 1)
    calls,             \* history: one entry per call of markowitz_opt
    inv_calls          \* history: evaluations of np.linalg.inv (line 50)

vars == <<pc, mu, cov_matrix, target_return, weights_opt, port_return,
          port_risk, frontier_returns, frontier_risks, idx, calls, inv_calls>>

(***************************************************************************)
(* Arithmetic on the numbers.                                              *)
(***************************************************************************)
Abs(x) == IF x < 0 THEN -x ELSE x

RECURSIVE GCD(_, _)
GCD(a, b) == IF b = 0 THEN a ELSE GCD(b, a % b)

NonFinite == [n |-> 0, d |-> 0]

IsFinite(x) == x.d # 0

\* The fraction n/d (d # 0) in lowest terms with a positive denominator.
Rat(n, d) ==
    LET g == GCD(Abs(n), Abs(d))
        s == IF d < 0 THEN -1 ELSE 1
    IN  [n |-> s * (n \div g), d |-> s * (d \div g)]

Num(k) == [n |-> k, d |-> 1]

Zero == Num(0)

One == Num(1)

RNeg(x) == [n |-> -x.n, d |-> x.d]

\* num / (g * dx * dy) in lowest terms, num being coprime to dx and dy.
Lowest(num, g2, g, dx, dy) == [n |-> num \div g2, d |-> ((g \div g2) * dx) * dy]

\* x + y with g the greatest common divisor of the denominators.
AddOver(x, y, g) ==
    Lowest(x.n * (y.d \div g) + y.n * (x.d \div g),
           GCD(Abs(x.n * (y.d \div g) + y.n * (x.d \div g)), g),
           g, x.d \div g, y.d \div g)

RAdd(x, y) ==
    IF ~IsFinite(x) \/ ~IsFinite(y) THEN NonFinite
    ELSE AddOver(x, y, GCD(x.d, y.d))

RSub(x, y) == RAdd(x, RNeg(y))

RMul(x, y) ==
    IF ~IsFinite(x) \/ ~IsFinite(y) THEN NonFinite
    ELSE LET g1 == GCD(Abs(x.n), y.d)
             g2 == GCD(Abs(y.n), x.d)
         IN  [n |-> (x.n \div g1) * (y.n \div g2),
              d |-> (x.d \div g2) * (y.d \div g1)]

\* float64 division: a zero divisor gives inf or nan, never an exception.
RDiv(x, y) ==
    IF ~IsFinite(x) \/ ~IsFinite(y) \/ y.n = 0 THEN NonFinite
    ELSE RMul(x, IF y.n < 0 THEN [n |-> -y.d, d |-> -y.n]
                            ELSE [n |-> y.d, d |-> y.n])

RECURSIVE SumTo(_, _)
SumTo(f, k) == IF k = 0 THEN Zero ELSE RAdd(SumTo(f, k - 1), f[k])

(***************************************************************************)
(* Wide naturals.  The exact value of a sum of products can need more than *)
(* the 31 bits of the checker's integers before it is reduced, so the dot  *)
(* product is accumulated in naturals hi * 2^30 + lo of up to 61 bits.     *)
(***************************************************************************)
Half == 2 ^ 15

Base == Half * Half

Wide(k) == [hi |-> k \div Base, lo |-> k % Base]

\* The value of a wide natural as an integer (defined when it fits).
Narrow(w) == w.hi * Base + w.lo

\* a * b for naturals a, b < 2^30.
WMul(a, b) ==
    LET a1 == a \div Half
        a0 == a % Half
        b1 == b \div Half
        b0 == b % Half
        mid == a1 * b0 + a0 * b1
        low == a0 * b0 + (mid % Half) * Half
    IN  [hi |-> a1 * b1 + (mid \div Half) + (low \div Base), lo |-> low % Base]

WAdd(x, y) == [hi |-> x.hi + y.hi + ((x.lo + y.lo) \div Base), lo |-> (x.lo + y.lo) % Base]

WLess(x, y) == x.hi < y.hi \/ (x.hi = y.hi /\ x.lo < y.lo)

\* x - y for x >= y.
WSub(x, y) ==
    IF x.lo >= y.lo THEN [hi |-> x.hi - y.hi, lo |-> x.lo - y.lo]
    ELSE [hi |-> x.hi - y.hi - 1, lo |-> x.lo + Base - y.lo]

\* Long division of the low half, one bit a step: r is the running
\* remainder (r < q), acc the quotient bits so far.
RECURSIVE DivLoop(_, _, _, _, _)
DivLoop(lo, q, bit, r, acc) ==
    IF bit = 0 THEN [quot |-> acc, rem |-> r]
    ELSE LET b == (lo \div (2 ^ (bit - 1))) % 2
             r2 == 2 * r + b
         IN  IF r2 >= q THEN DivLoop(lo, q, bit - 1, r2 - q, 2 * acc + 1)
             ELSE DivLoop(lo, q, bit - 1, r2, 2 * acc)

\* x divided by a natural 0 < q < 2^30: quotient (wide) and remainder.
WDivMod(x, q) ==
    IF x.hi = 0 THEN [quot |-> [hi |-> 0, lo |-> x.lo \div q], rem |-> x.lo % q]
    ELSE LET low == DivLoop(x.lo, q, 30, x.hi % q, 0)
         IN  [quot |-> [hi |-> x.hi \div q, lo |-> low.quot], rem |-> low.rem]

\* Order on finite numbers: x.n * y.d against y.n * x.d.
RLess(x, y) ==
    IF x.n < 0 /\ y.n >= 0 THEN TRUE
    ELSE IF x.n >= 0 /\ y.n < 0 THEN FALSE
    ELSE IF x.n >= 0 THEN WLess(WMul(x.n, y.d), WMul(y.n, x.d))
    ELSE WLess(WMul(-y.n, x.d), WMul(-x.n, y.d))

RLeq(x, y) == ~RLess(y, x)

\* A numpy array holds its computed elements.
Array(f) == f \o <<>>

\* The least common denominator of the first k elements of v.
RECURSIVE LcmDen(_, _)
LcmDen(v, k) ==
    IF k = 0 THEN 1
    ELSE LET l == LcmDen(v, k - 1)
         IN  (l \div GCD(l, v[k].d)) * v[k].d

\* The sum of the products U[i] * V[i] of one sign (pos: the positive ones),
\* as a wide natural.
RECURSIVE SignedSum(_, _, _, _)
SignedSum(U, V, k, pos) ==
    IF k = 0 THEN Wide(0)
    ELSE LET rest == SignedSum(U, V, k - 1, pos)
             positive == (U[k] > 0 /\ V[k] > 0) \/ (U[k] < 0 /\ V[k] < 0)
         IN  IF U[k] # 0 /\ V[k] # 0 /\ positive = pos
             THEN WAdd(rest, WMul(Abs(U[k]), Abs(V[k])))
             ELSE rest

\* The integers v[i] * q of an array whose common denominator is q.
Numerators(v, q) == Array([i \in 1..Len(v) |-> v[i].n * (q \div v[i].d)])

\* N / (du * (qv / g2)) for a wide N, g2 the part of qv that divides N.
ReduceBy(N, g2, du, qv) ==
    [n |-> Narrow(WDivMod(N, g2).quot), d |-> du * (qv \div g2)]

\* N / (du * qv) in lowest terms, N and du being coprime.
ReduceSecond(N, du, qv) == ReduceBy(N, GCD(WDivMod(N, qv).rem, qv), du, qv)

\* N / (qu * qv) for a wide N, g1 the part of qu that divides N.
ReduceFirst(N, g1, qu, qv) == ReduceSecond(WDivMod(N, g1).quot, qu \div g1, qv)

\* N / (qu * qv) in lowest terms.
Reduce(N, qu, qv) == ReduceFirst(N, GCD(WDivMod(N, qu).rem, qu), qu, qv)

\* (P - M) / (qu * qv) in lowest terms.
Quotient(P, M, qu, qv) ==
    IF WLess(P, M) THEN RNeg(Reduce(WSub(M, P), qu, qv))
    ELSE Reduce(WSub(P, M), qu, qv)

\* The dot product of the integer arrays U and V over qu * qv.
DotScaled(U, V, qu, qv) ==
    Quotient(SignedSum(U, V, Len(U), TRUE), SignedSum(U, V, Len(U), FALSE), qu, qv)

DotOver(u, v, qu, qv) == DotScaled(Numerators(u, qu), Numerators(v, qv), qu, qv)

\* u @ v for two 1-D arrays: the exact sum of u[i] * v[i].  With qu and qv
\* the common denominators of u and v, the sum is N / (qu * qv) for the
\* integer N = sum of (u[i]*qu) * (v[i]*qv), then reduced.
Dot(u, v) ==
    IF \E i \in 1..Len(u) : ~IsFinite(u[i]) \/ ~IsFinite(v[i]) THEN NonFinite
    ELSE DotOver(u, v, LcmDen(u, Len(u)), LcmDen(v, Len(v)))

Column(M, j) == Array([i \in 1..Len(M) |-> M[i][j]])

\* M @ v for a 2-D array and a 1-D array.
MatVec(M, v) == Array([i \in 1..Len(M) |-> Dot(M[i], v)])

\* v @ M (v.T @ M: the transpose of a 1-D array is the array itself).
VecMat(v, M) == Array([j \in 1..Len(M) |-> Dot(v, Column(M, j))])

\* s * v and u + v, elementwise.
Scale(s, v) == Array([i \in 1..Len(v) |-> RMul(s, v[i])])

VecAdd(u, v) == Array([i \in 1..Len(u) |-> RAdd(u[i], v[i])])

Sum(v) == SumTo(v, Len(v))

\* M without row i and column j.
Minor(M, i, j) ==
    [r \in 1..(Len(M) - 1) |->
        [c \in 1..(Len(M) - 1) |->
            M[IF r < i THEN r ELSE r + 1][IF c < j THEN c ELSE c + 1]]]

RECURSIVE Det(_)
Det(M) ==
    IF Len(M) = 0 THEN One
    ELSE SumTo([j \in 1..Len(M) |->
                   RMul(IF j % 2 = 1 THEN M[1][j] ELSE RNeg(M[1][j]),
                        Det(Minor(M, 1, j)))], Len(M))

(***************************************************************************)
(* markowitz_opt (lines 35-66).                                            *)
(***************************************************************************)
\* The inverse of cov from its determinant det # 0: the transposed cofactors
\* over det.
Cofactors(cov, det) ==
    Array([i \in 1..Len(cov) |->
        Array([j \in 1..Len(cov) |->
            RDiv(IF (i + j) % 2 = 0 THEN Det(Minor(cov, j, i))
                                    ELSE RNeg(Det(Minor(cov, j, i))),
                 det)])])

InverseOrRaise(cov, det) ==
    IF det.n = 0 THEN [raised |-> TRUE, value |-> <<>>]
    ELSE [raised |-> FALSE, value |-> Cofactors(cov, det)]

\* An inversion that does not notice a singular matrix: no exception, and
\* the division by the zero determinant leaves inf/nan entries.
np_linalg_inv_unchecked(cov) ==
    [raised |-> FALSE, value |-> Cofactors(cov, Det(cov))]

\* np.linalg.inv(cov): raises LinAlgError("Singular matrix") when cov has no
\* inverse; otherwise the inverse, which is unique, so the cofactor formula
\* gives the matrix LAPACK's LU solve computes.
np_linalg_inv(cov) == InverseOrRaise(cov, Det(cov))

\* A vector of twos where line 51 makes ones.
np_twos(k) == Array([i \in 1..k |-> Num(2)])

\* Line 51: ones = np.ones(len(mu))
np_ones(k) == Array([i \in 1..k |-> One])

\* np.sqrt on a float64: nan (a warning, no exception) below zero.  The root
\* of v >= 0 is kept as the non-negative real whose square is v.
np_sqrt(v) ==
    IF ~IsFinite(v) \/ v.n < 0 THEN [finite |-> FALSE, square |-> Zero]
    ELSE [finite |-> TRUE, square |-> v]

\* Line 58 with the target on the wrong aggregate: (C * target - B) / D.
lambda_swapped(B, C, D, target) == RDiv(RSub(RMul(C, target), B), D)

\* Line 58: lambda_ = (C - B * target) / D
lambda_(B, C, D, target) == RDiv(RSub(C, RMul(B, target)), D)

\* Line 59 with a sign slip: (A * target + B) / D.
gamma_plus(A, B, D, target) == RDiv(RAdd(RMul(A, target), B), D)

\* Line 59: gamma = (A * target - B) / D
gamma(A, B, D, target) == RDiv(RSub(RMul(A, target), B), D)

NoResult ==
    [raised |-> TRUE, A |-> Zero, B |-> Zero, C |-> Zero, D |-> Zero,
     weights |-> <<>>, port_return |-> Zero, port_std |-> np_sqrt(Zero)]

\* Lines 63-66: the achieved return and risk, and the return statement.
Lines63to66(m, cov, A, B, C, D, weights) ==
    [raised |-> FALSE, A |-> A, B |-> B, C |-> C, D |-> D,
     weights |-> weights,
     port_return |-> Dot(weights, m),
     port_std |-> np_sqrt(Dot(VecMat(weights, cov), weights))]

\* Lines 58-60: the multipliers and the weights
\* inv_cov @ (lambda_ * ones + gamma * mu).
Lines58to60(target, m, cov, inv_cov, ones, A, B, C, D) ==
    Lines63to66(m, cov, A, B, C, D,
        MatVec(inv_cov, VecAdd(Scale(lambda_(B, C, D, target), ones),
                               Scale(gamma(A, B, D, target), m))))

\* Line 55: D = A * C - B**2
Line55(target, m, cov, inv_cov, ones, A, B, C) ==
    Lines58to60(target, m, cov, inv_cov, ones, A, B, C,
                RSub(RMul(A, C), RMul(B, B)))

\* Lines 52-54: A = ones.T @ inv_cov @ ones, B = ones.T @ inv_cov @ mu,
\* C = mu.T @ inv_cov @ mu
Lines52to54(target, m, cov, inv_cov, ones) ==
    Line55(target, m, cov, inv_cov, ones,
           Dot(VecMat(ones, inv_cov), ones),
           Dot(VecMat(ones, inv_cov), m),
           Dot(VecMat(m, inv_cov), m))

\* Lines 50-51: the inversion raises, or the body goes on with inv_cov and
\* ones.
Lines50to51(target, m, cov, inv) ==
    IF inv.raised THEN NoResult
    ELSE Lines52to54(target, m, cov, inv.value, np_ones(Len(m)))

\* Lines 50-66: the body of markowitz_opt, statement by statement.  Either
\* the inversion raises, or the body runs to its return statement; the record
\* keeps the aggregates and the returned triple.
markowitz_body(target, m, cov) == Lines50to51(target, m, cov, np_linalg_inv(cov))

\* A call that leaves mu reversed in place, as mu.sort() or mu[:] = mu[::-1]
\* inside the body would.
markowitz_opt_reversing(target, m, cov) ==
    [ret |-> markowitz_body(target, m, cov),
     mu |-> Array([i \in 1..Len(m) |-> m[Len(m) + 1 - i]]), cov |-> cov]

\* A call that leaves the rows and the columns of cov in reverse order.
markowitz_opt_flipping(target, m, cov) ==
    [ret |-> markowitz_body(target, m, cov), mu |-> m,
     cov |-> Array([i \in 1..Len(cov) |->
                 Array([j \in 1..Len(cov) |->
                     cov[Len(cov) + 1 - i][Len(cov) + 1 - j]])])]

\* One call of markowitz_opt(target, mu, cov): what the body computes, and
\* the two array arguments as the call leaves them.  Python passes the arrays
\* by reference; the body only reads them (every operation on them, @, * and
\* +, allocates its result), so the caller's arrays are what they were.
markowitz_opt(target, m, cov) ==
    [ret |-> markowitz_body(target, m, cov), mu |-> m, cov |-> cov]

\* What the log of calls keeps of one call.
Entry(target, ret) ==
    [target |-> target, raised |-> ret.raised, A |-> ret.A, B |-> ret.B,
     C |-> ret.C, D |-> ret.D, weights |-> ret.weights,
     port_return |-> ret.port_return, port_std |-> ret.port_std]

(***************************************************************************)
(* The script (lines 22-30, 69, 86-91).                                    *)
(***************************************************************************)
Dec(k, scale) == Rat(k, scale)

\* st.slider("Target Portfolio Return", 0.07, 0.16, 0.12, step=0.005)
SliderMin == Dec(7, 100)

SliderMax == Dec(16, 100)

SliderDefault == Dec(12, 100)

SliderStep == Dec(5, 1000)

SliderValues ==
    LET span == RDiv(RSub(SliderMax, SliderMin), SliderStep)
    IN  {RAdd(SliderMin, RMul(Num(j), SliderStep)) : j \in 0..(span.n \div span.d)}

BuiltinMu == <<Dec(8, 100), Dec(12, 100), Dec(15, 100)>>

BuiltinCov ==
    <<<<Dec(1, 100),    Dec(3, 1000),    Dec(2, 1000)>>,
      <<Dec(3, 1000),   Dec(225, 10000), Dec(9, 1000)>>,
      <<Dec(2, 1000),   Dec(9, 1000),    Dec(4, 100)>>>>

FrontierSamples == 100

\* The samples taken one step late: start + (i + 1) * step.
linspace_late(start, stop, num) ==
    Array([i \in 1..num |->
        RAdd(start, RMul(Num(i), RDiv(RSub(stop, start), Num(num - 1))))])

\* The samples from stop down to start.
linspace_descending(start, stop, num) ==
    LET step == RDiv(RSub(stop, start), Num(num - 1))
    IN  Array([i \in 1..num |->
            IF i = num THEN start ELSE RSub(stop, RMul(Num(i - 1), step))])

\* np.linspace(start, stop, num): start + i*step with step = (stop-start)/(num-1),
\* the last sample set to stop.
linspace(start, stop, num) ==
    LET step == RDiv(RSub(stop, start), Num(num - 1))
    IN  Array([i \in 1..num |->
            IF i = num THEN stop ELSE RAdd(start, RMul(Num(i - 1), step))])

Init ==
    /\ pc = "slider"
    /\ mu = BuiltinMu
    /\ cov_matrix = BuiltinCov
    /\ target_return = SliderDefault
    /\ weights_opt = <<>>
    /\ port_return = Zero
    /\ port_risk = np_sqrt(Zero)
    /\ frontier_returns = <<>>
    /\ frontier_risks = <<>>
    /\ idx = 0
    /\ calls = <<>>
    /\ inv_calls = 0

\* Line 22: the user leaves the slider on one of its positions.
Slider ==
    /\ pc = "slider"
    /\ \E v \in SliderValues : target_return' = v
    /\ pc' = "solve"
    /\ UNCHANGED <<mu, cov_matrix, weights_opt, port_return, port_risk,
                   frontier_returns, frontier_risks, idx, calls, inv_calls>>

\* The assignment of line 69 with r the outcome of the call: the history
\* gets the call, the arrays are what the call left, and the three names are
\* bound unless the call raised (the script then ends with the exception).
Assign69(r) ==
    /\ mu' = r.mu
    /\ cov_matrix' = r.cov
    /\ calls' = Append(calls, Entry(target_return, r.ret))
    /\ inv_calls' = inv_calls + 1
    /\ IF r.ret.raised
       THEN /\ pc' = "raised"
            /\ UNCHANGED <<weights_opt, port_return, port_risk>>
       ELSE /\ pc' = "linspace"
            /\ weights_opt' = r.ret.weights
            /\ port_return' = r.ret.port_return
            /\ port_risk' = r.ret.port_std

\* Line 69: weights_opt, port_return, port_risk = markowitz_opt(target_return, mu, cov_matrix)
Solve ==
    /\ pc = "solve"
    /\ Assign69(markowitz_opt(target_return, mu, cov_matrix))
    /\ UNCHANGED <<target_return, frontier_returns, frontier_risks, idx>>

\* Lines 86-87: frontier_returns = np.linspace(0.07, 0.16, 100); frontier_risks = []
Linspace ==
    /\ pc = "linspace"
    /\ frontier_returns' = linspace(Dec(7, 100), Dec(16, 100), FrontierSamples)
    /\ frontier_risks' = <<>>
    /\ idx' = 1
    /\ pc' = "loop"
    /\ UNCHANGED <<mu, cov_matrix, target_return, weights_opt, port_return,
                   port_risk, calls, inv_calls>>

\* Lines 89-90 with r the outcome of the call at r_target: the risk is
\* appended unless the call raised.
Append90(r_target, r) ==
    /\ mu' = r.mu
    /\ cov_matrix' = r.cov
    /\ calls' = Append(calls, Entry(r_target, r.ret))
    /\ inv_calls' = inv_calls + 1
    /\ IF r.ret.raised
       THEN /\ pc' = "raised"
            /\ UNCHANGED <<frontier_risks, idx>>
       ELSE /\ pc' = "loop"
            /\ frontier_risks' = Append(frontier_risks, r.ret.port_std)
            /\ idx' = idx + 1

\* Lines 88-90: one iteration of the loop over frontier_returns.
SweepStep ==
    /\ pc = "loop"
    /\ idx <= Len(frontier_returns)
    /\ Append90(frontier_returns[idx],
                markowitz_opt(frontier_returns[idx], mu, cov_matrix))
    /\ UNCHANGED <<target_return, weights_opt, port_return, port_risk,
                   frontier_returns>>

\* Line 91: the loop is over; frontier_risks = np.array(frontier_risks).
ToArray ==
    /\ pc = "loop"
    /\ idx > Len(frontier_returns)
    /\ pc' = "done"
    /\ UNCHANGED <<mu, cov_matrix, target_return, weights_opt, port_return,
                   port_risk, frontier_returns, frontier_risks, idx, calls,
                   inv_calls>>

Next == Slider \/ Solve \/ Linspace \/ SweepStep \/ ToArray

Spec == Init /\ [][Next]_vars

(***************************************************************************)
(* markowitz_opt on arbitrary arguments: a market of two assets with small *)
(* integer returns and covariances (any symmetric matrix of non-negative   *)
(* variances, singular and indefinite ones included) and a small integer   *)
(* target, then line 69.                                                   *)
(***************************************************************************)
MaxCov == 2

MaxMu == 2

MaxTarget == 2

GenCov ==
    {<<<<Num(a), Num(b)>>, <<Num(b), Num(c)>>>> :
        a \in 0..MaxCov, b \in -MaxCov..MaxCov, c \in 0..MaxCov}

GenMu == {<<Num(a), Num(b)>> : a \in 0..MaxMu, b \in 0..MaxMu}

GenTargets == {Num(t) : t \in -MaxTarget..MaxTarget}

GenInit ==
    /\ pc = "pick"
    /\ mu \in GenMu
    /\ cov_matrix \in GenCov
    /\ target_return = Zero
    /\ weights_opt = <<>>
    /\ port_return = Zero
    /\ port_risk = np_sqrt(Zero)
    /\ frontier_returns = <<>>
    /\ frontier_risks = <<>>
    /\ idx = 0
    /\ calls = <<>>
    /\ inv_calls = 0

\* The caller's choice of the target.
GenPick ==
    /\ pc = "pick"
    /\ \E v \in GenTargets : target_return' = v
    /\ pc' = "solve"
    /\ UNCHANGED <<mu, cov_matrix, weights_opt, port_return, port_risk,
                   frontier_returns, frontier_risks, idx, calls, inv_calls>>

GenNext == GenPick \/ Solve

SpecGen == GenInit /\ [][GenNext]_vars

(***************************************************************************)
(* The properties.                                                         *)
(***************************************************************************)
\* The first call (line 69) has returned a triple.
FirstReturned == Len(calls) >= 1 /\ ~calls[1].raised

\* The order of two risks (non-negative roots): the order of their squares.
RootLess(r, q) == r.finite /\ q.finite /\ RLess(r.square, q.square)

RootLeq(r, q) == r.finite /\ q.finite /\ RLeq(r.square, q.square)

\* |x - c| <= tol, and the same for a risk (c - tol >= 0).
Approx(x, c, tol) == IsFinite(x) /\ RLeq(RSub(c, tol), x) /\ RLeq(x, RAdd(c, tol))

RootApprox(r, c, tol) ==
    /\ r.finite
    /\ RLeq(RMul(RSub(c, tol), RSub(c, tol)), r.square)
    /\ RLeq(r.square, RMul(RAdd(c, tol), RAdd(c, tol)))

\* C1: whenever the covariance matrix is invertible and D = A*C - B^2 is not
\* zero, the weights markowitz_opt returns sum to exactly 1, whatever the
\* target.
C1_BudgetConstraint ==
    (FirstReturned /\ calls[1].D.n # 0) => Sum(weights_opt) = One

\* C1 happens: a returned portfolio with D # 0 and a short position.
C1_Witness ==
    /\ FirstReturned
    /\ calls[1].D.n # 0
    /\ \E i \in 1..Len(weights_opt) : weights_opt[i].n < 0
    /\ Sum(weights_opt) = One

\* C2: whenever the covariance matrix is invertible and D is not zero, the
\* returned weights satisfy weights . mu = target and the returned
\* port_return is the target itself, for targets outside the range of the
\* assets' returns too.
C2_ReturnConstraint ==
    (FirstReturned /\ calls[1].D.n # 0) =>
        /\ Dot(weights_opt, mu) = target_return
        /\ port_return = target_return
        /\ calls[1].target = target_return

\* C2 happens: a target above every asset's return is met.
C2_Witness ==
    /\ FirstReturned
    /\ calls[1].D.n # 0
    /\ \A i \in 1..Len(mu) : RLess(mu[i], target_return)
    /\ port_return = target_return

\* M is positive definite: its leading principal minors are positive.
PositiveDefinite(M) ==
    \A k \in 1..Len(M) :
        Det([i \in 1..k |-> [j \in 1..k |-> M[i][j]]]).n > 0

\* C3: with a (positive definite) covariance matrix and returns that make
\* D = 0, the call fails for every target and returns no triple.
C3_DegenerateRaises ==
    (Len(calls) >= 1 /\ PositiveDefinite(cov_matrix) /\ calls[1].D.n = 0) =>
        (pc = "raised" /\ weights_opt = <<>>)

\* C4: with a covariance matrix that has no inverse the call fails in the
\* inversion, for every target, and no weights, return or risk are produced.
C4_SingularRaises ==
    (Len(calls) >= 1 /\ Det(cov_matrix).n = 0) =>
        /\ pc = "raised"
        /\ calls[1].raised
        /\ weights_opt = <<>>
        /\ port_return = Zero
        /\ port_risk = np_sqrt(Zero)

\* C4 happens: the call raised on a matrix of two identical non-zero rows.
C4_Witness ==
    /\ pc = "raised"
    /\ cov_matrix[1] = cov_matrix[2]
    /\ cov_matrix[1][1].n # 0
    /\ target_return.n # 0

\* C5: every triple the call returns (D # 0) has a risk that is a
\* non-negative number, the root of weights^T cov weights; a negative
\* variance makes the call fail instead.
C5_RiskDefined ==
    (FirstReturned /\ calls[1].D.n # 0) => port_risk.finite

\* C6: the sweep ends with exactly 100 risks, the i-th (from 0) being the
\* risk of the solve at 0.07 + i*(0.16 - 0.07)/99, in ascending i order, the
\* first solve returning 0.07 and the last 0.16.
C6_SweepOrder ==
    /\ (pc = "loop" => Len(frontier_risks) = idx - 1)
    /\ (pc = "done" =>
          /\ Len(frontier_returns) = FrontierSamples
          /\ Len(frontier_risks) = FrontierSamples
          /\ Len(calls) = FrontierSamples + 1
          /\ \A i \in 1..FrontierSamples :
                /\ frontier_returns[i] =
                      RAdd(Dec(7, 100),
                           RDiv(RMul(Num(i - 1), RSub(Dec(16, 100), Dec(7, 100))),
                                Num(FrontierSamples - 1)))
                /\ calls[i + 1].target = frontier_returns[i]
                /\ calls[i + 1].port_std = frontier_risks[i]
                /\ calls[i + 1].port_return = frontier_returns[i]
          /\ calls[2].port_return = Dec(7, 100)
          /\ calls[FrontierSamples + 1].port_return = Dec(16, 100))

\* C6 happens: the sweep has ended.
C6_Witness ==
    /\ pc = "done"
    /\ Len(frontier_risks) = FrontierSamples
    /\ frontier_returns[FrontierSamples] = Dec(16, 100)

\* C7: for the built-in market the sweep gives 100 points of strictly
\* increasing expected return, and the least risk is at an interior index.
C7_InteriorMinimum ==
    pc = "done" =>
        /\ Len(frontier_risks) = 100
        /\ \A i \in 1..(Len(frontier_risks) - 1) :
              /\ RLess(frontier_returns[i], frontier_returns[i + 1])
              /\ RLess(calls[i + 1].port_return, calls[i + 2].port_return)
        /\ \E i \in 2..(Len(frontier_risks) - 1) :
              /\ \A j \in 1..Len(frontier_risks) :
                    RootLeq(frontier_risks[i], frontier_risks[j])
              /\ RootLess(frontier_risks[i], frontier_risks[1])
              /\ RootLess(frontier_risks[i], frontier_risks[Len(frontier_risks)])

\* C7 happens: the sweep of the built-in market has ended, and the risk
\* falls and then rises along it.
C7_Witness ==
    /\ pc = "done"
    /\ mu = BuiltinMu
    /\ cov_matrix = BuiltinCov
    /\ RootLess(frontier_risks[2], frontier_risks[1])
    /\ RootLess(frontier_risks[99], frontier_risks[100])

\* C8 as stated: at R = 0.12 the built-in market gives weights about
\* [0.4069, 0.6667, -0.0736], return about 0.12 and risk about 0.1201
\* (each within 0.005).
C8_StatedDigits ==
    (FirstReturned /\ target_return = Dec(12, 100)) =>
        /\ Approx(weights_opt[1], Dec(4069, 10000), Dec(5, 1000))
        /\ Approx(weights_opt[2], Dec(6667, 10000), Dec(5, 1000))
        /\ Approx(weights_opt[3], Dec(-736, 10000), Dec(5, 1000))
        /\ Approx(port_return, Dec(12, 100), Dec(5, 1000))
        /\ RootApprox(port_risk, Dec(1201, 10000), Dec(5, 1000))

\* C8 amended: at R = 0.12 the built-in market gives weights about
\* [0.2699, 0.3703, 0.3599], return 0.12 and risk about 0.1113 (each within
\* 0.00005).
C8_ClosedFormDigits ==
    (FirstReturned /\ target_return = Dec(12, 100)) =>
        /\ Approx(weights_opt[1], Dec(2699, 10000), Dec(5, 100000))
        /\ Approx(weights_opt[2], Dec(3703, 10000), Dec(5, 100000))
        /\ Approx(weights_opt[3], Dec(3599, 10000), Dec(5, 100000))
        /\ port_return = Dec(12, 100)
        /\ RootApprox(port_risk, Dec(1113, 10000), Dec(5, 100000))

\* C8 happens: the solve at R = 0.12 has returned.
C8_Witness ==
    /\ FirstReturned
    /\ target_return = Dec(12, 100)
    /\ mu = BuiltinMu
    /\ cov_matrix = BuiltinCov
    /\ Len(weights_opt) = 3

\* C9: a call with the target of an earlier call returns the triple the
\* earlier call returned, whatever calls ran in between, and no call changes
\* mu or cov_matrix.  (The log only grows, so comparing the newest call with
\* every earlier one in every state compares every pair.)
C9_Idempotent ==
    /\ mu = BuiltinMu
    /\ cov_matrix = BuiltinCov
    /\ \A i \in 1..Len(calls) :
          calls[i].target = calls[Len(calls)].target =>
              /\ calls[i].weights = calls[Len(calls)].weights
              /\ calls[i].port_return = calls[Len(calls)].port_return
              /\ calls[i].port_std = calls[Len(calls)].port_std

\* C9 happens: the slider's target is solved again by the sweep, with other
\* solves in between.
C9_Witness ==
    /\ Len(calls) >= 4
    /\ calls[Len(calls)].target = calls[1].target
    /\ calls[Len(calls)].weights = calls[1].weights
    /\ calls[Len(calls) - 1].target # calls[1].target

\* C10 as stated: the inverse and the aggregates are computed once, however
\* many targets are solved.
C10_ComputedOnce == inv_calls <= 1

\* C10 amended: the inverse and the aggregates are computed again by every
\* call (101 times for the slider's solve and the sweep), and every call
\* finds the same A, B, C, D.
C10_RecomputedSame ==
    /\ inv_calls = Len(calls)
    /\ (pc = "done" => inv_calls = FrontierSamples + 1)
    /\ \A i \in 1..Len(calls) :
          /\ calls[i].A = calls[1].A
          /\ calls[i].B = calls[1].B
          /\ calls[i].C = calls[1].C
          /\ calls[i].D = calls[1].D

\* C10 happens: the sweep has ended after 101 inversions.
C10_Witness ==
    /\ pc = "done"
    /\ inv_calls = FrontierSamples + 1
    /\ calls[FrontierSamples + 1].D = calls[1].D

====
